---- MODULE Spec2Model ----
(***************************************************************************)
(* A model of lib/sqlite.js of partial.js: the SQLite facade (lazy open,   *)
(* execute/get/reader over the sqlite3 driver) and the statement           *)
(* operations assembled on top of it (count, findAll, findTop, findPK,     *)
(* insert, update, delete).                                                *)
(*                                                                         *)
(* SQL text and names are TLA+ strings; JavaScript values are tagged       *)
(* records (Undef, NullV, Num, Str, Date ...), objects are functions from  *)
(* property names to values, arrays are sequences.                         *)
(***************************************************************************)
EXTENDS Integers, Sequences, FiniteSets, TLC

VARIABLES
    db,         \* this.db
    isOpened,   \* this.isOpened
    dbCreated,  \* how many times `new sqlite3.cached.Database` ran
    value,      \* the caller's record object, passed to insert/update/delete
    without,    \* the caller's column-exclusion array, shared between calls
    pending,    \* driver requests in flight, oldest first
    out         \* what the last step did: the call, what it handed to the
                \* driver, what it threw, how the caller's callback was invoked

vars == <<db, isOpened, dbCreated, value, without, pending, out>>

-----------------------------------------------------------------------------
(* Bounds *)

MaxPending == 1     \* driver requests in flight at once
MaxWithout == 2     \* length of the caller's exclusion array
MaxLen == 4         \* length of the names given to prepareSchema
MaxTake == 10       \* findAll's take
MaxSkip == 5        \* findAll's skip

-----------------------------------------------------------------------------
(* JavaScript values *)

Undef == [t |-> "undefined"]
NullV == [t |-> "null"]
Num(n) == [t |-> "number", n |-> n]
Str(s) == [t |-> "string", s |-> s]
Fn == [t |-> "function"]
Obj(o) == [t |-> "object", o |-> o]
Date(y, mo, d, h, mi, s) ==
    [t |-> "date", y |-> y, mo |-> mo, d |-> d, h |-> h, mi |-> mi, s |-> s]

EmptyObject == [k \in {} |-> Undef]

\* o[k] of a JavaScript object: undefined when the property is absent
Prop(o, k) == IF k \in DOMAIN o THEN o[k] ELSE Undef

\* o[k] = v
SetProp(o, k, v) == [x \in DOMAIN o \cup {k} |-> IF x = k THEN v ELSE o[x]]

-----------------------------------------------------------------------------
(* String primitives of JavaScript *)

CharAt(s, i) == SubSeq(s, i, i)

RECURSIVE IndexFrom(_, _, _)
IndexFrom(s, c, i) ==
    IF i > Len(s) THEN -1
    ELSE IF CharAt(s, i) = c THEN i - 1
    ELSE IndexFrom(s, c, i + 1)

\* String.prototype.indexOf(c): 0-based index of the first c, -1 if none
IndexOf(s, c) == IndexFrom(s, c, 1)

\* String.prototype.substring(start), 0 <= start
Substring(s, start) == SubSeq(s, start + 1, Len(s))

\* String.prototype.replace(/c/g, to), c one character
RECURSIVE ReplaceAll(_, _, _)
ReplaceAll(s, c, to) ==
    IF s = "" THEN ""
    ELSE (IF Head(s) = c THEN to ELSE Head(s)) \o ReplaceAll(Tail(s), c, to)

\* Array.prototype.join(sep) of an array of strings
RECURSIVE Join(_, _)
Join(a, sep) ==
    IF Len(a) = 0 THEN ""
    ELSE IF Len(a) = 1 THEN a[1]
    ELSE a[1] \o sep \o Join(Tail(a), sep)

\* Array.prototype.indexOf(x) === -1
NotIn(a, x) == \A i \in 1..Len(a) : a[i] # x

Digit(d) == CharAt("0123456789", d + 1)

\* '' + n for a natural number n
RECURSIVE NumToString(_)
NumToString(n) ==
    IF n < 10 THEN Digit(n) ELSE NumToString(n \div 10) \o Digit(n % 10)

Pad2(n) == IF n < 10 THEN "0" \o Digit(n) ELSE NumToString(n)

Pad4(n) ==
    IF n < 10 THEN "000" \o NumToString(n)
    ELSE IF n < 100 THEN "00" \o NumToString(n)
    ELSE IF n < 1000 THEN "0" \o NumToString(n)
    ELSE NumToString(n)

\* utils' Date.prototype.format('yyyy-MM-dd HH:mm:ss')
FormatDate(v) ==
    Pad4(v.y) \o "-" \o Pad2(v.mo) \o "-" \o Pad2(v.d) \o " "
        \o Pad2(v.h) \o ":" \o Pad2(v.mi) \o ":" \o Pad2(v.s)

-----------------------------------------------------------------------------
(* prepareSchema and make *)

prepareSchema(name) ==
    LET index == IndexOf(name, "#")
        index2 == IF index = 0 THEN IndexOf(name, "/") ELSE index
    IN  Substring(name, index2 + 1)

\* make(value) when value is a string: '{' becomes '$', '}' is removed
makeText(s) == ReplaceAll(ReplaceAll(s, "{", "$"), "}", "")

\* make(value) when value is an object: every key o becomes '$' + o
makeArg(o) ==
    [k \in {"$" \o x : x \in DOMAIN o} |->
        LET val == o[Substring(k, 1)]
        IN  IF val.t = "date" THEN Str(FormatDate(val)) ELSE val]

make(v) ==
    IF v.t \in {"null", "undefined"} THEN EmptyObject
    ELSE IF v.t = "string" THEN makeText(v.s)
    ELSE IF v.t \in {"QueryBuilder", "ParameterBuilder"} THEN makeArg(v.params)
    ELSE makeArg(v.o)

-----------------------------------------------------------------------------
(* builders: the schema registry, the builders' shapes *)

errors ==
    <<"Schema not defined.", "Primary key not defined.",
      "Parameter builder must be QueryBuilder type.",
      "Parameter builder must be OrderBuilder type.", "Timeout">>

SchemaNotDefined == errors[1]
PrimaryKeyNotDefined == errors[2]
NotQueryBuilder == errors[3]
NotOrderBuilder == errors[4]

\* A column of a schema and its descriptor
Column(name, pk, auto) ==
    [name |-> name, primaryKey |-> pk, autoGenerateOnInsert |-> auto]

\* The process-wide registry, filled at startup and read-only afterwards:
\* each schema is its columns in registration order.
\*   users      = {id: {primaryKey, autoGenerateOnInsert}, name: {}, age: {}}
\*   #db/items  = {id: {primaryKey}, name: {}, age: {}}
\*   logs       = {name: {}, at: {}}
registry ==
    ("users" :> << Column("id", TRUE, TRUE), Column("name", FALSE, FALSE),
                   Column("age", FALSE, FALSE) >>)
    @@ ("#db/items" :> << Column("id", TRUE, FALSE), Column("name", FALSE, FALSE),
                          Column("age", FALSE, FALSE) >>)
    @@ ("logs" :> << Column("name", FALSE, FALSE), Column("at", FALSE, FALSE) >>)

\* Schema names callers pass: the registered ones and one that is not
SchemaNames == {"users", "#db/items", "logs", "nope"}

\* builders.schema(name): the schema object (its keys in registration
\* order), or null
schema(name) ==
    IF name \in DOMAIN registry
    THEN [t |-> "schema",
          keys |-> [i \in 1..Len(registry[name]) |-> registry[name][i].name]]
    ELSE NullV

\* builders.primaryKey(name): { name, insert } or null. insert says that the
\* caller supplies the key's value, that is, that the engine does not
\* generate it.
primaryKey(name) ==
    IF name \in DOMAIN registry
          /\ \E i \in 1..Len(registry[name]) : registry[name][i].primaryKey
    THEN LET c == registry[name][CHOOSE i \in 1..Len(registry[name]) :
                                    registry[name][i].primaryKey]
         IN  [t |-> "primary", name |-> c.name,
              insert |-> ~c.autoGenerateOnInsert]
    ELSE NullV

QueryBuilder(fragments, params) ==
    [t |-> "QueryBuilder", builder |-> fragments, params |-> params]

OrderBuilder(directives) == [t |-> "OrderBuilder", builder |-> directives]

\* QueryBuilder.prototype.hasValue
hasValue(b) == Len(b.builder) > 0

\* new ParameterBuilder(), then add(name, value) for every name of cols
RECURSIVE ParameterBuilder(_, _, _)
ParameterBuilder(params, cols, val) ==
    IF Len(cols) = 0 THEN [t |-> "ParameterBuilder", params |-> params]
    ELSE ParameterBuilder(SetProp(params, Head(cols), Prop(val, Head(cols))),
                          Tail(cols), val)

-----------------------------------------------------------------------------
(* Statement assembly *)

\* Object.keys(obj) filtered by without.indexOf(o) === -1
Columns(obj, w) == SelectSeq(obj.keys, LAMBDA o : NotIn(w, o))

\* without = without || []
orEmpty(w) == IF w.t = "undefined" THEN <<>> ELSE w.a

\* ' WHERE ' + builder.builder.join(' ') when the builder has a value
whereOf(builder) ==
    IF builder.t # "null" /\ hasValue(builder)
    THEN " WHERE " \o Join(builder.builder, " ")
    ELSE ""

\* the loop over order.builder: only descending directives are rendered
RECURSIVE sortOf(_, _)
sortOf(directives, sort) ==
    IF Len(directives) = 0 THEN sort
    ELSE LET o == Head(directives)
         IN  sortOf(Tail(directives),
                    IF o.type = "desc"
                    THEN sort \o (IF Len(sort) > 0 THEN ", " ELSE "")
                              \o o.name \o " DESC"
                    ELSE sort)

\* pagination with the offset-only branch emitting skip
paginationOffsetSkip(take, skip) ==
    IF take # 0 /\ skip # 0
    THEN " LIMIT " \o NumToString(take) \o " OFFSET " \o NumToString(skip)
    ELSE IF take # 0 THEN " LIMIT " \o NumToString(take)
    ELSE IF skip # 0 THEN " OFFSET " \o NumToString(skip)
    ELSE ""

\* findAll's LIMIT / OFFSET suffix
pagination(take, skip) ==
    IF take # 0 /\ skip # 0
    THEN " LIMIT " \o NumToString(take) \o " OFFSET " \o NumToString(skip)
    ELSE IF take # 0 THEN " LIMIT " \o NumToString(take)
    ELSE IF skip # 0 THEN " OFFSET " \o NumToString(take)
    ELSE ""

countQuery(name, builder) ==
    "SELECT COUNT(*) As value FROM " \o prepareSchema(name) \o whereOf(builder)

findAllQuery(name, obj, builder, order, take, skip, w) ==
    LET columns == Join(Columns(obj, w), ", ")
        sort == IF order.t # "null" THEN sortOf(order.builder, "") ELSE ""
    IN  "SELECT " \o columns \o " FROM " \o prepareSchema(name)
            \o whereOf(builder)
            \o (IF Len(sort) > 0 THEN " ORDER BY " \o sort ELSE "")
            \o pagination(take, skip)

findPKQuery(name, obj, primary, w) ==
    "SELECT " \o Join(Columns(obj, w), ", ") \o " FROM " \o prepareSchema(name)
        \o " WHERE " \o primary.name \o "={" \o primary.name \o "} LIMIT 1"

\* insertWithout with the push left out
insertWithoutNoPush(w, primary) == w

\* insert: the primary key joins the exclusion array unless primary.insert
insertWithout(w, primary) ==
    IF primary.t # "null" /\ ~primary.insert THEN Append(w, primary.name) ELSE w

insertQuery(name, column) ==
    "INSERT INTO " \o prepareSchema(name) \o "(" \o Join(column, ",")
        \o ") VALUES("
        \o Join([i \in 1..Len(column) |-> "{" \o column[i] \o "}"], ",")
        \o ")"

\* update: the primary key always joins the exclusion array
updateWithout(w, primary) == Append(w, primary.name)

\* updateParams with add() moved inside the exclusion test
updateParamsSetOnly(obj, val, w) ==
    ParameterBuilder(EmptyObject, Columns(obj, w), val)

\* update registers every schema column as a parameter
updateParams(obj, val, w) == ParameterBuilder(EmptyObject, obj.keys, val)

updateQuery(name, obj, primary, w) ==
    LET values == Columns(obj, w)
    IN  "UPDATE " \o prepareSchema(name) \o " SET "
            \o Join([i \in 1..Len(values) |->
                        values[i] \o "={" \o values[i] \o "}"], ",")
            \o " WHERE " \o primary.name \o "={" \o primary.name \o "}"

deleteQuery(name, primary) ==
    "DELETE FROM " \o prepareSchema(name) \o " WHERE " \o primary.name
        \o "={" \o primary.name \o "}"

\* The checks a statement operation makes before it builds anything: the
\* message it throws, "" when it goes on.
schemaGuard(obj) == IF obj.t = "null" THEN SchemaNotDefined ELSE ""

\* primaryGuard throwing errors[0] for a missing primary key
primaryGuardWrongMessage(obj, primary) ==
    IF obj.t = "null" \/ primary.t = "null" THEN SchemaNotDefined ELSE ""

primaryGuard(obj, primary) ==
    IF obj.t = "null" THEN SchemaNotDefined
    ELSE IF primary.t = "null" THEN PrimaryKeyNotDefined
    ELSE ""

builderGuard(obj, builder) ==
    IF obj.t = "null" THEN SchemaNotDefined
    ELSE IF builder.t # "null" /\ builder.t # "QueryBuilder" THEN NotQueryBuilder
    ELSE ""

findAllGuard(obj, builder, order) ==
    IF builderGuard(obj, builder) # "" THEN builderGuard(obj, builder)
    ELSE IF order.t # "null" /\ order.t # "OrderBuilder" THEN NotOrderBuilder
    ELSE ""

-----------------------------------------------------------------------------
(* The callbacks the library hands to the driver *)

\* What running a callback did: what it threw, how often and with what it
\* invoked the caller's callback, and the caller's record afterwards.
Invoked(err, data, changes, val) ==
    [thrown |-> "", calls |-> 1, err |-> err, data |-> data,
     changes |-> changes, value |-> val]

\* reading a property of null throws a TypeError out of the callback
TypeError(val) ==
    [thrown |-> "TypeError", calls |-> 0, err |-> "", data |-> Undef,
     changes |-> Undef, value |-> val]

\* execute's run callback: err === null ? { id, changes } : null
executeData(err, stmt) ==
    IF err = "null"
    THEN [t |-> "result", id |-> stmt.lastID, changes |-> stmt.changes]
    ELSE NullV

\* get's callback: err === null ? data || null : null
getData(err, data) ==
    IF err = "null" THEN (IF data.t = "undefined" THEN NullV ELSE data) ELSE NullV

\* reader's callback: err === null ? data || [] : null
readerData(err, data) ==
    IF err = "null"
    THEN (IF data.t = "undefined" THEN [t |-> "array", a |-> <<>>] ELSE data)
    ELSE NullV

\* the caller's own callback, handed through unchanged
userCallback(err, data, val) == Invoked(err, data, Undef, val)

\* insertCallback writing data.changes back instead of data.id
insertCallbackWrongField(err, data, primary, val) ==
    IF err = "null" /\ (primary.t = "null" \/ data.t = "null") THEN TypeError(val)
    ELSE LET v2 == IF err = "null"
                   THEN SetProp(val, primary.name, Num(data.changes))
                   ELSE val
         IN  IF data.t = "null" THEN TypeError(v2)
             ELSE Invoked(err, Obj(v2), Num(data.changes), v2)

\* insert's callback on execute
insertCallback(err, data, primary, val) ==
    IF err = "null" /\ (primary.t = "null" \/ data.t = "null") THEN TypeError(val)
    ELSE LET v2 == IF err = "null"
                   THEN SetProp(val, primary.name, Num(data.id))
                   ELSE val
         IN  IF data.t = "null" THEN TypeError(v2)
             ELSE Invoked(err, Obj(v2), Num(data.changes), v2)

\* update's and delete's callback on execute
modifyCallback(err, data, val) ==
    IF data.t = "null" THEN TypeError(val)
    ELSE Invoked(err, Obj(val), Num(data.changes), val)

\* count's callback on scalar
countCallback(err, data, val) ==
    IF err = "null"
    THEN (IF data.t = "null" THEN TypeError(val)
          ELSE Invoked(err, Prop(data.o, "value"), Undef, val))
    ELSE Invoked(err, Num(0), Undef, val)

callbackOf(req, err, data, val) ==
    IF req.op = "insert" THEN insertCallback(err, data, req.primary, val)
    ELSE IF req.op \in {"update", "delete"} THEN modifyCallback(err, data, val)
    ELSE IF req.op = "count" THEN countCallback(err, data, val)
    ELSE userCallback(err, data, val)

-----------------------------------------------------------------------------
(* State *)

NoDrv == [err |-> "", data |-> Undef]

Out(ev, op, name) ==
    [ev |-> ev, op |-> op, schema |-> name, stage |-> "", warg |-> <<>>,
     record |-> EmptyObject, take |-> 0, skip |-> 0,
     thrown |-> "", query |-> "", sql |-> "", params |-> EmptyObject,
     issued |-> 0, calledOpen |-> FALSE, drv |-> NoDrv, primary |-> NullV,
     cbCalls |-> 0, cbErr |-> "", cbData |-> Undef, cbChanges |-> Undef,
     ret |-> ""]

\* The record the caller hands to insert, update and delete
Peter == ("name" :> Str("Peter")) @@ ("age" :> Num(28))

\* The caller's exclusion array as the caller created it
WithoutSupplied == <<>>

Init ==
    /\ db = "null"
    /\ isOpened = FALSE
    /\ dbCreated = 0
    /\ value = Peter
    /\ without = WithoutSupplied
    /\ pending = <<>>
    /\ out = Out("init", "", "")

-----------------------------------------------------------------------------
(* Connection facade *)

\* open without its isOpened test
openedAlways ==
    [db |-> "Database", isOpened |-> TRUE, dbCreated |-> dbCreated + 1]

\* self.open(): what db, isOpened are afterwards
opened ==
    IF isOpened
    THEN [db |-> db, isOpened |-> isOpened, dbCreated |-> dbCreated]
    ELSE [db |-> "Database", isOpened |-> TRUE, dbCreated |-> dbCreated + 1]

connect ==
    /\ db' = opened.db
    /\ isOpened' = opened.isOpened
    /\ dbCreated' = opened.dbCreated

open ==
    /\ connect
    /\ out' = [Out("call", "open", "") EXCEPT !.calledOpen = TRUE]
    /\ UNCHANGED <<value, without, pending>>

close ==
    /\ out' = Out("call", "close", "")
    /\ UNCHANGED <<db, isOpened, dbCreated, value, without, pending>>

\* on(name, fn): open, then subscribe on the driver's database object
on ==
    /\ connect
    /\ out' = [Out("call", "on", "") EXCEPT !.calledOpen = TRUE]
    /\ UNCHANGED <<value, without, pending>>

database ==
    /\ connect
    /\ out' = [Out("call", "database", "") EXCEPT !.calledOpen = TRUE]
    /\ UNCHANGED <<value, without, pending>>

\* run(sql, params): fire and forget, nothing is normalised, no callback
run(sql, params) ==
    /\ connect
    /\ out' = [Out("call", "run", "") EXCEPT
                  !.calledOpen = TRUE, !.issued = 1, !.sql = sql.s]
    /\ UNCHANGED <<value, without, pending>>

\* an operation throws msg at the call site: nothing else happens
throw(op, name, msg) ==
    /\ out' = [Out("call", op, name) EXCEPT !.thrown = msg]
    /\ UNCHANGED <<db, isOpened, dbCreated, value, without, pending>>

\* typeof(params) == 'function': the callback was given in params' place
swap(params) == IF params.t = "function" THEN NullV ELSE params

\* The common part of execute, get and reader: open, normalise the text and
\* the parameters, hand both to the driver (kind: prepare, get or all).
\* o describes the call so far.
request(kind, o, sql, params) ==
    /\ Len(pending) < MaxPending
    /\ connect
    /\ pending' = Append(pending,
                         [kind |-> kind, op |-> o.op, primary |-> o.primary])
    /\ out' = [o EXCEPT !.sql = make(sql), !.params = make(swap(params)),
                        !.issued = 1, !.calledOpen = TRUE]
    /\ UNCHANGED value

execute(sql, params) ==
    /\ request("prepare", Out("call", "execute", ""), sql, params)
    /\ UNCHANGED without

get(sql, params) ==
    /\ request("get", Out("call", "get", ""), sql, params)
    /\ UNCHANGED without

scalar(sql, params) == get(sql, params)

reader(sql, params) ==
    /\ request("all", Out("call", "reader", ""), sql, params)
    /\ UNCHANGED without

-----------------------------------------------------------------------------
(* Statement operations *)

\* The without argument of a call: absent, a fresh array literal, or the
\* array the caller keeps and passes again ("shared")
Withouts == {"undefined", "literal"}

withoutArg(sel) ==
    IF sel = "undefined" THEN Undef
    ELSE IF sel = "shared" THEN [t |-> "array", a |-> without]
    ELSE [t |-> "array", a |-> <<"age">>]

\* a push onto the array the caller passed is seen by the caller
pushed(sel, w) ==
    /\ sel = "shared" => Len(w) <= MaxWithout
    /\ without' = IF sel = "shared" THEN w ELSE without

count(name, builder) ==
    LET obj == schema(name)
        b == swap(builder)
    IN  IF builderGuard(obj, b) # ""
        THEN throw("count", name, builderGuard(obj, b))
        ELSE LET query == countQuery(name, b)
             IN  /\ request("get", [Out("call", "count", name) EXCEPT
                                      !.query = query], Str(query), b)
                 /\ UNCHANGED without

findAll(name, builder, order, take, skip, sel) ==
    LET obj == schema(name)
        w == orEmpty(withoutArg(sel))
    IN  IF findAllGuard(obj, builder, order) # ""
        THEN throw("findAll", name, findAllGuard(obj, builder, order))
        ELSE LET query == findAllQuery(name, obj, builder, order, take, skip, w)
             IN  /\ request("all", [Out("call", "findAll", name) EXCEPT
                                      !.warg = w, !.query = query,
                                      !.take = take, !.skip = skip],
                            Str(query), builder)
                 /\ UNCHANGED without

findTop(top, name, builder, order, sel) ==
    findAll(name, builder, order, top, 0, sel)

findPK(name, key, sel) ==
    LET obj == schema(name)
        primary == primaryKey(name)
        w == orEmpty(withoutArg(sel))
    IN  IF primaryGuard(obj, primary) # ""
        THEN throw("findPK", name, primaryGuard(obj, primary))
        ELSE LET query == findPKQuery(name, obj, primary, w)
             IN  /\ request("get", [Out("call", "findPK", name) EXCEPT
                                      !.warg = w, !.query = query,
                                      !.primary = primary],
                            Str(query), Obj(primary.name :> key))
                 /\ UNCHANGED without

insert(name, sel) ==
    LET obj == schema(name)
        primary == primaryKey(name)
        w0 == orEmpty(withoutArg(sel))
    IN  IF schemaGuard(obj) # ""
        THEN throw("insert", name, schemaGuard(obj))
        ELSE LET w == insertWithout(w0, primary)
                 column == Columns(obj, w)
                 query == insertQuery(name, column)
             IN  /\ pushed(sel, w)
                 /\ request("prepare", [Out("call", "insert", name) EXCEPT
                                          !.warg = w0, !.query = query,
                                          !.record = value, !.primary = primary],
                            Str(query),
                            ParameterBuilder(EmptyObject, column, value))

update(name, sel) ==
    LET obj == schema(name)
        primary == primaryKey(name)
        w0 == orEmpty(withoutArg(sel))
    IN  IF primaryGuard(obj, primary) # ""
        THEN throw("update", name, primaryGuard(obj, primary))
        ELSE LET w == updateWithout(w0, primary)
                 query == updateQuery(name, obj, primary, w)
             IN  /\ pushed(sel, w)
                 /\ request("prepare", [Out("call", "update", name) EXCEPT
                                          !.warg = w0, !.query = query,
                                          !.record = value, !.primary = primary],
                            Str(query), updateParams(obj, value, w))

delete(name) ==
    LET obj == schema(name)
        primary == primaryKey(name)
    IN  IF primaryGuard(obj, primary) # ""
        THEN throw("delete", name, primaryGuard(obj, primary))
        ELSE LET query == deleteQuery(name, primary)
             IN  /\ request("prepare", [Out("call", "delete", name) EXCEPT
                                          !.query = query, !.record = value,
                                          !.primary = primary],
                            Str(query),
                            ParameterBuilder(EmptyObject, <<primary.name>>, value))
                 /\ UNCHANGED without

-----------------------------------------------------------------------------
(* The driver completes the oldest request *)

DriverErrs == {"null", "SQLITE_ERROR"}
LastIDs == {7}
ChangeCounts == {0, 1}
UserRow == Obj(("id" :> Num(1)) @@ ("name" :> Str("Peter")))
GetRows == {Undef, Obj("value" :> Num(0)), Obj("value" :> Num(3)), UserRow}
AllRows == {Undef, [t |-> "array", a |-> <<>>], [t |-> "array", a |-> <<UserRow>>]}

\* the library's callback ran with (err, data) for request req
completed(req, err, drvData, r) ==
    /\ out' = [Out("complete", req.op, "") EXCEPT
                  !.stage = req.kind, !.drv = [err |-> err, data |-> drvData],
                  !.primary = req.primary, !.thrown = r.thrown,
                  !.cbCalls = r.calls, !.cbErr = r.err, !.cbData = r.data,
                  !.cbChanges = r.changes]
    /\ value' = r.value
    /\ pending' = Tail(pending)
    /\ UNCHANGED <<db, isOpened, dbCreated, without>>

\* prepare's callback: an error goes to the callback, otherwise db.run
prepareDone(err) ==
    /\ pending # <<>>
    /\ Head(pending).kind = "prepare"
    /\ LET req == Head(pending)
       IN  IF err # "null"
           THEN completed(req, err, Undef, callbackOf(req, err, NullV, value))
           ELSE /\ pending' = Append(Tail(pending), [req EXCEPT !.kind = "run"])
                /\ out' = [Out("complete", req.op, "") EXCEPT
                              !.stage = "prepare", !.issued = 1,
                              !.drv = [err |-> err, data |-> Undef],
                              !.primary = req.primary]
                /\ UNCHANGED <<db, isOpened, dbCreated, value, without>>

runDone(err, lastID, changes) ==
    /\ pending # <<>>
    /\ Head(pending).kind = "run"
    /\ LET req == Head(pending)
           stmt == [t |-> "statement", lastID |-> lastID, changes |-> changes]
       IN  completed(req, err, stmt,
                     callbackOf(req, err, executeData(err, stmt), value))

getDone(err, row) ==
    /\ pending # <<>>
    /\ Head(pending).kind = "get"
    /\ LET req == Head(pending)
       IN  completed(req, err, row, callbackOf(req, err, getData(err, row), value))

allDone(err, rows) ==
    /\ pending # <<>>
    /\ Head(pending).kind = "all"
    /\ LET req == Head(pending)
       IN  completed(req, err, rows,
                     callbackOf(req, err, readerData(err, rows), value))

-----------------------------------------------------------------------------
(* Inputs *)

FilterByAge == QueryBuilder(<<"age>{age}">>, "age" :> Num(20))

Filters == {NullV, QueryBuilder(<<>>, EmptyObject), FilterByAge, Obj(EmptyObject)}

Orders ==
    { NullV,
      OrderBuilder(<< [name |-> "age", type |-> "desc"],
                      [name |-> "name", type |-> "asc"],
                      [name |-> "id", type |-> "desc"] >>),
      Obj(EmptyObject) }

RawSql == Str("UPDATE users SET at={at} WHERE id={id}")

RawParams ==
    { Fn, NullV, Obj(("id" :> Num(1)) @@ ("at" :> Date(2013, 1, 5, 9, 3, 7))) }

Next ==
    \/ open
    \/ close
    \/ on
    \/ database
    \/ run(RawSql, NullV)
    \/ \E p \in RawParams : execute(RawSql, p)
    \/ \E p \in RawParams : get(RawSql, p)
    \/ \E p \in RawParams : scalar(RawSql, p)
    \/ \E p \in RawParams : reader(RawSql, p)
    \/ \E n \in SchemaNames, b \in Filters \cup {Fn} : count(n, b)
    \/ \E n \in SchemaNames, b \in Filters : findAll(n, b, NullV, 0, 0, "undefined")
    \/ \E o \in Orders, t \in {0, MaxTake}, s \in {0, MaxSkip}, w \in Withouts :
            findAll("users", FilterByAge, o, t, s, w)
    \/ \E n \in SchemaNames, o \in Orders :
            findTop(MaxTake, n, NullV, o, "literal")
    \/ \E n \in SchemaNames, w \in Withouts : findPK(n, Num(1), w)
    \/ \E n \in SchemaNames, w \in Withouts : insert(n, w)
    \/ \E n \in SchemaNames, w \in Withouts : update(n, w)
    \/ \E n \in SchemaNames : delete(n)
    \/ \E e \in DriverErrs : prepareDone(e)
    \/ \E e \in DriverErrs, i \in LastIDs, c \in ChangeCounts : runDone(e, i, c)
    \/ \E e \in DriverErrs, r \in GetRows : getDone(e, r)
    \/ \E e \in DriverErrs, r \in AllRows : allDone(e, r)

Spec == Init /\ [][Next]_vars

-----------------------------------------------------------------------------
(* The caller keeps one exclusion array and passes it to every call *)

NextShared ==
    \/ \E n \in SchemaNames : insert(n, "shared")
    \/ \E n \in SchemaNames : update(n, "shared")
    \/ \E n \in SchemaNames : findPK(n, Num(1), "shared")
    \/ \E e \in DriverErrs : prepareDone(e)
    \/ \E e \in DriverErrs, i \in LastIDs, c \in ChangeCounts : runDone(e, i, c)
    \/ \E e \in DriverErrs, r \in GetRows : getDone(e, r)

SpecShared == Init /\ [][NextShared]_vars

-----------------------------------------------------------------------------
(* The pure parts on their own: prepareSchema on every short name, findAll  *)
(* on every take and skip                                                   *)

Alphabet == {"#", "/", "a", "b"}

RECURSIVE NamesUpTo(_)
NamesUpTo(n) ==
    IF n = 0 THEN {""}
    ELSE {""} \cup {c \o s : c \in Alphabet, s \in NamesUpTo(n - 1)}

Names == NamesUpTo(MaxLen)

prepareSchemaStep(name) ==
    /\ out' = [Out("call", "prepareSchema", name) EXCEPT
                  !.ret = prepareSchema(name)]
    /\ UNCHANGED <<db, isOpened, dbCreated, value, without, pending>>

NextAssembly ==
    \/ \E name \in Names : prepareSchemaStep(name)
    \/ \E t \in 0..MaxTake, s \in 0..MaxSkip :
            findAll("users", NullV, NullV, t, s, "undefined")
    \/ \E e \in DriverErrs, r \in AllRows : allDone(e, r)

SpecAssembly == Init /\ [][NextAssembly]_vars

-----------------------------------------------------------------------------
(* Reading SQL text *)

EndsWith(s, suffix) ==
    /\ Len(s) >= Len(suffix)
    /\ SubSeq(s, Len(s) - Len(suffix) + 1, Len(s)) = suffix

Contains(s, sub) ==
    \E i \in 1..(Len(s) - Len(sub) + 1) : SubSeq(s, i, i + Len(sub) - 1) = sub

NameChars ==
    { CharAt("abcdefghijklmnopqrstuvwxyzABCDEFGHIJKLMNOPQRSTUVWXYZ0123456789_", i) :
        i \in 1..63 }

\* the last position of the run of name characters that starts at i
RECURSIVE NameEnd(_, _)
NameEnd(s, i) ==
    IF i <= Len(s) /\ CharAt(s, i) \in NameChars THEN NameEnd(s, i + 1) ELSE i - 1

\* every placeholder $<name> that occurs in s
Placeholders(s) ==
    { SubSeq(s, i, NameEnd(s, i + 1)) : i \in {j \in 1..Len(s) : CharAt(s, j) = "$"} }

\* the columns of a registered schema, in registration order
KeysOf(name) == schema(name).keys

Registered(name) == name \in DOMAIN registry

-----------------------------------------------------------------------------
(* C1 .. C10 *)

\* C1: whenever the driver reports an error for a statement, nothing is
\* thrown, the caller's callback is invoked exactly once with that error and
\* with null/absent data, and the caller's record is left as it was.
C1_DriverErrorDelivered ==
    [][ (out'.ev = "complete" /\ out'.drv.err # "null")
            => /\ out'.thrown = ""
               /\ out'.cbCalls = 1
               /\ out'.cbErr = out'.drv.err
               /\ out'.cbData \in {NullV, Undef}
               /\ out'.cbChanges \in {NullV, Undef}
               /\ value' = value ]_vars

\* C2: count's driver request completes without error and with no row: the
\* callback receives (no error, 0), and nothing is thrown.
C2_CountNoRowIsZero ==
    (out.ev = "complete" /\ out.op = "count" /\ out.drv.err = "null"
        /\ out.drv.data = Undef)
        => /\ out.thrown = ""
           /\ out.cbCalls = 1
           /\ out.cbErr = "null"
           /\ out.cbData = Num(0)

\* a findAll call that reached the driver
FindAllCalled == out.ev = "call" /\ out.op = "findAll" /\ out.thrown = ""

\* C3 as stated: take=10, skip=5 ends in LIMIT 10 OFFSET 5; take=10, skip=0
\* ends in LIMIT 10; take=0, skip=5 ends in OFFSET 10; take=0, skip=0 has no
\* LIMIT or OFFSET.
C3_PaginationAsStated ==
    FindAllCalled =>
        /\ (out.take = 10 /\ out.skip = 5) => EndsWith(out.query, " LIMIT 10 OFFSET 5")
        /\ (out.take = 10 /\ out.skip = 0) => EndsWith(out.query, " LIMIT 10")
        /\ (out.take = 0 /\ out.skip = 5) => EndsWith(out.query, " OFFSET 10")
        /\ (out.take = 0 /\ out.skip = 0)
                => ~Contains(out.query, "LIMIT") /\ ~Contains(out.query, "OFFSET")

\* C3 amended: non-zero take and skip end the text in LIMIT <take> OFFSET
\* <skip>; non-zero take alone in LIMIT <take>, with no OFFSET; non-zero skip
\* alone in OFFSET 0, the value of take, with no LIMIT; neither, no LIMIT and
\* no OFFSET. So take=10, skip=5 gives LIMIT 10 OFFSET 5, take=10, skip=0
\* gives LIMIT 10 and take=0, skip=5 gives OFFSET 0.
C3_Pagination ==
    FindAllCalled =>
        /\ (out.take # 0 /\ out.skip # 0)
                => EndsWith(out.query, " LIMIT " \o NumToString(out.take)
                                        \o " OFFSET " \o NumToString(out.skip))
        /\ (out.take # 0 /\ out.skip = 0)
                => /\ EndsWith(out.query, " LIMIT " \o NumToString(out.take))
                   /\ ~Contains(out.query, "OFFSET")
        /\ (out.take = 0 /\ out.skip # 0)
                => /\ EndsWith(out.query, " OFFSET 0")
                   /\ ~Contains(out.query, "LIMIT")
        /\ (out.take = 0 /\ out.skip = 0)
                => ~Contains(out.query, "LIMIT") /\ ~Contains(out.query, "OFFSET")
        /\ (out.take = 10 /\ out.skip = 5) => EndsWith(out.query, " LIMIT 10 OFFSET 5")
        /\ (out.take = 10 /\ out.skip = 0) => EndsWith(out.query, " LIMIT 10")

C3_Witness ==
    FindAllCalled /\ out.take = 0 /\ out.skip = 5
        /\ out.query = "SELECT id, name, age FROM users OFFSET 0"

\* insert's success callback for a schema with primary key id: the record is
\* the one passed, with id set to the driver's lastID; the callback gets
\* (null, that record, the driver's changes)
InsertSucceeded ==
    /\ out.ev = "complete" /\ out.op = "insert" /\ out.stage = "run"
    /\ out.drv.err = "null" /\ out.primary.t # "null"

InsertReported ==
    /\ out.thrown = ""
    /\ out.cbCalls = 1
    /\ out.cbErr = "null"
    /\ value = SetProp(Peter, "id", Num(out.drv.data.lastID))
    /\ out.cbData = Obj(value)
    /\ out.cbChanges = Num(out.drv.data.changes)

\* C4: with users = {id: {primaryKey, autoGenerateOnInsert}, name, age},
\* insert('users', {name:'Peter', age:28}, cb) hands the driver exactly
\* INSERT INTO users(name,age) VALUES($name,$age) with {$name:'Peter',
\* $age:28}; on success cb(null, {name, age, id: generated}, changes).
C4_InsertUsers ==
    /\ (out.ev = "call" /\ out.op = "insert" /\ out.schema = "users"
            /\ out.record = Peter /\ out.warg = <<>>)
        => /\ out.thrown = ""
           /\ out.sql = "INSERT INTO users(name,age) VALUES($name,$age)"
           /\ out.params = ("$name" :> Str("Peter")) @@ ("$age" :> Num(28))
           /\ out.issued = 1
    /\ (InsertSucceeded /\ ~out.primary.insert) => InsertReported

C4_Witness ==
    /\ out.ev = "call" /\ out.op = "insert" /\ out.schema = "users"
    /\ out.record = Peter /\ out.warg = <<>>
    /\ out.sql = "INSERT INTO users(name,age) VALUES($name,$age)"

\* the text insert is to produce for the columns cols of table
InsertText(table, cols) ==
    "INSERT INTO " \o table \o "(" \o Join(cols, ",") \o ") VALUES("
        \o Join([i \in 1..Len(cols) |-> "$" \o cols[i]], ",") \o ")"

\* the schema's columns but the primary key and those of the exclusion
\* array the caller passed, in registration order
OtherColumns(name, pk, warg) ==
    SelectSeq(KeysOf(name), LAMBDA c : c # pk /\ \A i \in 1..Len(warg) : warg[i] # c)

Table(name) == IF name = "#db/items" THEN "items" ELSE name

InsertCalledWithKey ==
    /\ out.ev = "call" /\ out.op = "insert" /\ out.thrown = ""
    /\ out.primary.t # "null"

\* C5 as stated: when the primary key's autoGenerateOnInsert is false, insert
\* leaves the key out of the columns and the placeholders.
C5_KeyExcludedWhenNotGenerated ==
    (InsertCalledWithKey /\ out.primary.insert)
        => out.sql = InsertText(Table(out.schema),
                                OtherColumns(out.schema, out.primary.name, out.warg))

\* C5 amended: when the primary key's autoGenerateOnInsert is true, insert
\* leaves the key out of the columns and the placeholders, every other
\* non-excluded column appears in registration order; on success the record
\* gains the driver's lastID in its primary-key field and the callback
\* reports the affected-row count.
C5_KeyExcludedWhenGenerated ==
    /\ (InsertCalledWithKey /\ ~out.primary.insert)
        => out.sql = InsertText(Table(out.schema),
                                OtherColumns(out.schema, out.primary.name, out.warg))
    /\ InsertSucceeded
        => /\ value[out.primary.name] = Num(out.drv.data.lastID)
           /\ out.cbCalls = 1
           /\ out.cbChanges = Num(out.drv.data.changes)

C5_Witness ==
    /\ InsertSucceeded /\ ~out.primary.insert
    /\ value["id"] = Num(7) /\ out.cbChanges = Num(1)

\* C6: a name that starts with '#' loses everything up to and including its
\* first '/', the rest is unchanged; any other name, also one with a '#'
\* further on, comes back as it is.
C6_PrepareSchema ==
    (out.ev = "call" /\ out.op = "prepareSchema")
        => LET name == out.schema
               marked == Len(name) > 0 /\ CharAt(name, 1) = "#"
           IN  /\ (marked /\ Contains(name, "/"))
                    => \E i \in 1..Len(name) :
                          /\ CharAt(name, i) = "/"
                          /\ ~Contains(SubSeq(name, 1, i - 1), "/")
                          /\ out.ret = SubSeq(name, i + 1, Len(name))
               /\ ~marked => out.ret = name

StatementOps == {"count", "findAll", "findPK", "insert", "update", "delete"}

NoPrimaryKey(name) == \A i \in 1..Len(registry[name]) : ~registry[name][i].primaryKey

\* C7: update, findPK and delete on a registered schema with no primary key
\* throw PrimaryKeyNotDefined, every statement operation on an unregistered
\* schema throws SchemaNotDefined; the step that throws builds no SQL, does
\* not open the connection, issues nothing to the driver, leaves no request
\* behind that could call back, and invokes no callback.
C7_FailFast ==
    [][ (out'.ev = "call" /\ out'.op \in StatementOps)
            => /\ ~Registered(out'.schema) => out'.thrown = SchemaNotDefined
               /\ (Registered(out'.schema) /\ NoPrimaryKey(out'.schema)
                        /\ out'.op \in {"update", "findPK", "delete"})
                    => out'.thrown = PrimaryKeyNotDefined
               /\ out'.thrown \in {SchemaNotDefined, PrimaryKeyNotDefined}
                    => /\ out'.query = "" /\ out'.sql = ""
                       /\ ~out'.calledOpen /\ out'.issued = 0
                       /\ out'.cbCalls = 0
                       /\ UNCHANGED <<db, isOpened, dbCreated, pending,
                                      value, without>> ]_vars

C7_Witness ==
    /\ out.ev = "call" /\ out.op = "update" /\ out.schema = "logs"
    /\ out.thrown = PrimaryKeyNotDefined /\ ~isOpened

\* a statement of insert, update, delete or findPK was handed to the driver
KeyedStatementHanded ==
    /\ out.ev = "call" /\ out.op \in {"insert", "update", "delete", "findPK"}
    /\ out.thrown = ""

\* C8: every placeholder of the text handed to the driver by insert, update,
\* delete and findPK has its entry in the parameters handed with it; update
\* registers every schema column, the primary key of its WHERE clause
\* included, and its SET list leaves the primary key out.
C8_PlaceholdersBound ==
    KeyedStatementHanded
        => /\ out.issued = 1
           /\ ~Contains(out.sql, "{") /\ ~Contains(out.sql, "}")
           /\ \A p \in Placeholders(out.sql) : p \in DOMAIN out.params
           /\ out.op \in {"update", "delete", "findPK"}
                => EndsWith(out.sql, " WHERE " \o out.primary.name \o "=$"
                                     \o out.primary.name
                                     \o (IF out.op = "findPK" THEN " LIMIT 1" ELSE ""))
           /\ out.op = "update"
                => /\ \A i \in 1..Len(KeysOf(out.schema)) :
                          ("$" \o KeysOf(out.schema)[i]) \in DOMAIN out.params
                   /\ ("$" \o out.primary.name) \in Placeholders(out.sql)
                   /\ \E i \in 1..Len(out.sql) :
                          /\ SubSeq(out.sql, i, i + 6) = " WHERE "
                          /\ ~Contains(SubSeq(out.sql, 1, i),
                                       out.primary.name \o "=$")

C8_Witness ==
    /\ KeyedStatementHanded /\ out.op = "update" /\ out.schema = "users"
    /\ out.sql = "UPDATE users SET name=$name,age=$age WHERE id=$id"
    /\ DOMAIN out.params = {"$id", "$name", "$age"}

C10_WithoutUnchanged ==
    /\ without = WithoutSupplied
    /\ (out.ev = "call" /\ out.op = "insert" /\ out.thrown = "")
        => out.query =
             insertQuery(out.schema,
                         Columns(schema(out.schema),
                                 IF out.primary.t # "null" /\ ~out.primary.insert
                                 THEN <<out.primary.name>> ELSE <<>>))

====
